---------------------------- MODULE Spec2Model ----------------------------
(***************************************************************************)
(* Model of src/server.js, the OpenAI -> NVIDIA NIM chat-completion proxy. *)
(*                                                                         *)
(* Text is a sequence of one-character strings.  Upstream bytes are the    *)
(* same characters for ASCII; the two bytes of one two-byte UTF-8 scalar   *)
(* are the tokens "xC3" and "xA9", which decode to the character "U+00E9"  *)
(* when they arrive in one chunk and to "U+FFFD" replacement characters    *)
(* when a chunk boundary separates them (Buffer.toString("utf8")).         *)
(***************************************************************************)
EXTENDS Integers, Sequences, FiniteSets, TLC

(***************************************************************************)
(* Characters                                                              *)
(***************************************************************************)
NL == "\n"
CR == "\r"
QUOTE == "\""
BACKSLASH == "\\"
LEAD_BYTE == "xC3"
CONT_BYTE == "xA9"
E_ACUTE == "U+00E9"
REPLACEMENT == "U+FFFD"

Min(a, b) == IF a <= b THEN a ELSE b

(***************************************************************************)
(* Buffer.prototype.toString("utf8") on one chunk: a lead byte followed by *)
(* its continuation byte is one character; a lead byte with no             *)
(* continuation byte in this chunk, or a continuation byte with no lead    *)
(* byte before it in this chunk, is replaced by U+FFFD.                    *)
(***************************************************************************)
CONSUMED == ""

toStringUtf8(chunk) ==
  LET n == Len(chunk)
      at(i) == IF chunk[i] = LEAD_BYTE
               THEN IF i < n /\ chunk[i + 1] = CONT_BYTE THEN E_ACUTE ELSE REPLACEMENT
               ELSE IF chunk[i] = CONT_BYTE
                    THEN IF i > 1 /\ chunk[i - 1] = LEAD_BYTE THEN CONSUMED
                         ELSE REPLACEMENT
                    ELSE chunk[i]
  IN SelectSeq([i \in 1..n |-> at(i)], LAMBDA c : c # CONSUMED)

(***************************************************************************)
(* String.prototype helpers used by the data handler.                      *)
(***************************************************************************)
HasAt(s, i, p) ==
  /\ i + Len(p) - 1 <= Len(s)
  /\ \A k \in 1..Len(p) : s[i + k - 1] = p[k]

startsWith(s, p) == HasAt(s, 1, p)

includes(s, p) == \E i \in 1..(Len(s) + 1) : HasAt(s, i, p)

slice(s, n) == IF n >= Len(s) THEN <<>> ELSE SubSeq(s, n + 1, Len(s))

\* s.split("\n"): the fragments between newlines; always at least one.
RECURSIVE SplitFrom(_, _)
SplitFrom(s, start) ==
  IF \E i \in start..Len(s) : s[i] = NL
  THEN LET i == CHOOSE i \in start..Len(s) :
                  s[i] = NL /\ \A j \in start..(i - 1) : s[j] # NL
       IN <<SubSeq(s, start, i - 1)>> \o SplitFrom(s, i + 1)
  ELSE <<SubSeq(s, start, Len(s))>>

split(s) == SplitFrom(s, 1)

(***************************************************************************)
(* JavaScript values as they come out of JSON.parse.  Every value is a     *)
(* record of one shape: t the type tag, s the text of a string (or the     *)
(* literal of a number, boolean or null), ks the keys of an object in      *)
(* insertion order, vs the values of an object or the items of an array.   *)
(***************************************************************************)
J(t, s, ks, vs) == [t |-> t, s |-> s, ks |-> ks, vs |-> vs]
JUndefined == J("undefined", <<>>, <<>>, <<>>)
NULL_LIT == <<"n", "u", "l", "l">>
TRUE_LIT == <<"t", "r", "u", "e">>
FALSE_LIT == <<"f", "a", "l", "s", "e">>
JNull == J("null", NULL_LIT, <<>>, <<>>)
JTrue == J("bool", TRUE_LIT, <<>>, <<>>)
JFalse == J("bool", FALSE_LIT, <<>>, <<>>)
JNum(digits) == J("num", digits, <<>>, <<>>)
JStr(text) == J("str", text, <<>>, <<>>)
JArr(items) == J("arr", <<>>, <<>>, items)
JObj(keys, vals) == J("obj", <<>>, keys, vals)

KeyIndex(keys, k) ==
  IF \E i \in 1..Len(keys) : keys[i] = k
  THEN CHOOSE i \in 1..Len(keys) : keys[i] = k
  ELSE 0

\* obj[k] = v: an existing key keeps its place, a new key goes last.
SetProp(o, k, v) ==
  LET i == KeyIndex(o.ks, k) IN
  IF i = 0 THEN JObj(Append(o.ks, k), Append(o.vs, v))
  ELSE JObj(o.ks, [o.vs EXCEPT ![i] = v])

\* delete obj[k]
DeleteProp(o, k) ==
  LET i == KeyIndex(o.ks, k) IN
  IF i = 0 THEN o
  ELSE JObj(SubSeq(o.ks, 1, i - 1) \o SubSeq(o.ks, i + 1, Len(o.ks)),
            SubSeq(o.vs, 1, i - 1) \o SubSeq(o.vs, i + 1, Len(o.vs)))

\* v[k] for a property name k; a missing property reads as undefined.
GetProp(v, k) ==
  IF v.t = "obj" /\ KeyIndex(v.ks, k) # 0 THEN v.vs[KeyIndex(v.ks, k)]
  ELSE JUndefined

\* v[0]
GetIndex0(v) ==
  CASE v.t = "arr" -> IF Len(v.vs) > 0 THEN v.vs[1] ELSE JUndefined
    [] v.t = "obj" -> GetProp(v, <<"0">>)
    [] v.t = "str" -> IF Len(v.s) > 0 THEN JStr(<<v.s[1]>>) ELSE JUndefined
    [] OTHER -> JUndefined

Nullish(v) == v.t \in {"undefined", "null"}

\* ToBoolean
Truthy(v) ==
  CASE v.t \in {"undefined", "null"} -> FALSE
    [] v.t = "bool" -> v.s = TRUE_LIT
    [] v.t = "num" -> v.s # <<"0">>
    [] v.t = "str" -> v.s # <<>>
    [] OTHER -> TRUE

(***************************************************************************)
(* JSON.parse, for the grammar: objects, arrays, strings with the escapes  *)
(* \" \\ \n, non-negative decimals, true, false, null, and whitespace      *)
(* between tokens.  ok = FALSE stands for the SyntaxError it throws.       *)
(***************************************************************************)
WHITESPACE == {" ", "\t", CR, NL}
DIGITS == {"0", "1", "2", "3", "4", "5", "6", "7", "8", "9"}

ParseFail == [ok |-> FALSE, v |-> JUndefined, next |-> 0]
ParseOk(v, next) == [ok |-> TRUE, v |-> v, next |-> next]

RECURSIVE SkipWs(_, _)
SkipWs(s, i) == IF i <= Len(s) /\ s[i] \in WHITESPACE THEN SkipWs(s, i + 1) ELSE i

RECURSIVE ParseChars(_, _, _)
ParseChars(s, i, acc) ==
  IF i > Len(s) THEN ParseFail
  ELSE IF s[i] = QUOTE THEN ParseOk(JStr(acc), i + 1)
  ELSE IF s[i] = BACKSLASH
       THEN IF i + 1 > Len(s) THEN ParseFail
            ELSE IF s[i + 1] \in {QUOTE, BACKSLASH}
                 THEN ParseChars(s, i + 2, Append(acc, s[i + 1]))
            ELSE IF s[i + 1] = "n" THEN ParseChars(s, i + 2, Append(acc, NL))
            ELSE ParseFail
  ELSE IF s[i] \in {NL, CR, "\t"} THEN ParseFail
  ELSE ParseChars(s, i + 1, Append(acc, s[i]))

RECURSIVE DigitsEnd(_, _)
DigitsEnd(s, i) == IF i <= Len(s) /\ s[i] \in DIGITS THEN DigitsEnd(s, i + 1) ELSE i

RECURSIVE StripLeadingZeros(_)
StripLeadingZeros(s) ==
  IF Len(s) > 1 /\ s[1] = "0" /\ s[2] \in DIGITS THEN StripLeadingZeros(Tail(s)) ELSE s

RECURSIVE StripTrailingZeros(_)
StripTrailingZeros(s) ==
  IF s # <<>> /\ s[Len(s)] = "0" THEN StripTrailingZeros(SubSeq(s, 1, Len(s) - 1)) ELSE s

IsDecimal(s) ==
  LET e == DigitsEnd(s, 1) IN
  /\ e > 1
  /\ \/ e > Len(s)
     \/ /\ s[e] = "."
        /\ e < Len(s)
        /\ DigitsEnd(s, e + 1) > Len(s)

\* The number a decimal literal denotes, as JavaScript prints it.
Decimal(s) ==
  LET e == DigitsEnd(s, 1)
      int == StripLeadingZeros(SubSeq(s, 1, e - 1))
      frac == IF e > Len(s) THEN <<>> ELSE StripTrailingZeros(SubSeq(s, e + 1, Len(s)))
  IN JNum(IF frac = <<>> THEN int ELSE int \o <<".">> \o frac)

RECURSIVE ParseValue(_, _), ParseElements(_, _, _), ParseMembers(_, _, _)
ParseValue(s, i0) ==
  LET i == SkipWs(s, i0) IN
  IF i > Len(s) THEN ParseFail
  ELSE IF s[i] = "{"
       THEN LET j == SkipWs(s, i + 1) IN
            IF j <= Len(s) /\ s[j] = "}" THEN ParseOk(JObj(<<>>, <<>>), j + 1)
            ELSE ParseMembers(s, j, JObj(<<>>, <<>>))
  ELSE IF s[i] = "["
       THEN LET j == SkipWs(s, i + 1) IN
            IF j <= Len(s) /\ s[j] = "]" THEN ParseOk(JArr(<<>>), j + 1)
            ELSE ParseElements(s, j, <<>>)
  ELSE IF s[i] = QUOTE THEN ParseChars(s, i + 1, <<>>)
  ELSE IF s[i] \in DIGITS
       THEN LET e == DigitsEnd(s, i)
                f == IF e < Len(s) /\ s[e] = "." /\ s[e + 1] \in DIGITS
                     THEN DigitsEnd(s, e + 1)
                     ELSE e
            IN IF s[i] = "0" /\ e > i + 1 THEN ParseFail
               ELSE ParseOk(Decimal(SubSeq(s, i, f - 1)), f)
  ELSE IF HasAt(s, i, NULL_LIT) THEN ParseOk(JNull, i + 4)
  ELSE IF HasAt(s, i, TRUE_LIT) THEN ParseOk(JTrue, i + 4)
  ELSE IF HasAt(s, i, FALSE_LIT) THEN ParseOk(JFalse, i + 5)
  ELSE ParseFail

ParseElements(s, i, acc) ==
  LET r == ParseValue(s, i) IN
  IF ~r.ok THEN ParseFail
  ELSE LET j == SkipWs(s, r.next) IN
       IF j > Len(s) THEN ParseFail
       ELSE IF s[j] = "," THEN ParseElements(s, j + 1, Append(acc, r.v))
       ELSE IF s[j] = "]" THEN ParseOk(JArr(Append(acc, r.v)), j + 1)
       ELSE ParseFail

ParseMembers(s, i0, obj) ==
  LET i == SkipWs(s, i0) IN
  IF i > Len(s) \/ s[i] # QUOTE THEN ParseFail
  ELSE LET k == ParseChars(s, i + 1, <<>>) IN
       IF ~k.ok THEN ParseFail
       ELSE LET c == SkipWs(s, k.next) IN
            IF c > Len(s) \/ s[c] # ":" THEN ParseFail
            ELSE LET r == ParseValue(s, c + 1) IN
                 IF ~r.ok THEN ParseFail
                 ELSE LET j == SkipWs(s, r.next)
                          o == SetProp(obj, k.v.s, r.v)
                      IN IF j > Len(s) THEN ParseFail
                         ELSE IF s[j] = "," THEN ParseMembers(s, j + 1, o)
                         ELSE IF s[j] = "}" THEN ParseOk(o, j + 1)
                         ELSE ParseFail

JSONparse(s) ==
  LET r == ParseValue(s, 1) IN
  IF r.ok /\ SkipWs(s, r.next) > Len(s) THEN [ok |-> TRUE, v |-> r.v]
  ELSE [ok |-> FALSE, v |-> JUndefined]

(***************************************************************************)
(* JSON.stringify of a parsed value: no whitespace, keys in insertion      *)
(* order, the characters " \ and newline escaped inside strings.           *)
(***************************************************************************)
RECURSIVE EscapeFrom(_, _)
EscapeFrom(s, i) ==
  IF i > Len(s) THEN <<>>
  ELSE IF s[i] \in {QUOTE, BACKSLASH} THEN <<BACKSLASH, s[i]>> \o EscapeFrom(s, i + 1)
  ELSE IF s[i] = NL THEN <<BACKSLASH, "n">> \o EscapeFrom(s, i + 1)
  ELSE <<s[i]>> \o EscapeFrom(s, i + 1)

Quoted(s) == <<QUOTE>> \o EscapeFrom(s, 1) \o <<QUOTE>>

RECURSIVE JSONstringify(_), StringifyItems(_, _), StringifyMembers(_, _)
JSONstringify(v) ==
  CASE v.t = "str" -> Quoted(v.s)
    [] v.t = "arr" -> <<"[">> \o StringifyItems(v.vs, 1) \o <<"]">>
    [] v.t = "obj" -> <<"{">> \o StringifyMembers(v, 1) \o <<"}">>
    [] OTHER -> v.s

StringifyItems(vs, i) ==
  IF i > Len(vs) THEN <<>>
  ELSE (IF i > 1 THEN <<",">> ELSE <<>>) \o JSONstringify(vs[i]) \o StringifyItems(vs, i + 1)

StringifyMembers(o, i) ==
  IF i > Len(o.ks) THEN <<>>
  ELSE (IF i > 1 THEN <<",">> ELSE <<>>) \o Quoted(o.ks[i]) \o <<":">>
       \o JSONstringify(o.vs[i]) \o StringifyMembers(o, i + 1)

(***************************************************************************)
(* Literals of the streaming path.                                         *)
(***************************************************************************)
DATA_PREFIX == <<"d", "a", "t", "a", ":", " ">>
DONE_TOKEN == <<"[", "D", "O", "N", "E", "]">>
DONE_FRAME == DATA_PREFIX \o DONE_TOKEN \o <<NL, NL>>
THINK_OPEN == <<"<", "t", "h", "i", "n", "k", ">", NL>>
THINK_CLOSE == <<"<", "/", "t", "h", "i", "n", "k", ">", NL, NL>>
K_choices == <<"c", "h", "o", "i", "c", "e", "s">>
K_delta == <<"d", "e", "l", "t", "a">>
K_content == <<"c", "o", "n", "t", "e", "n", "t">>
K_reasoning_content ==
  <<"r", "e", "a", "s", "o", "n", "i", "n", "g", "_", "c", "o", "n", "t", "e", "n", "t">>

\* ToStr, as string concatenation with + applies it.
RECURSIVE ToStr(_), JoinItems(_, _)
ToStr(v) ==
  CASE v.t = "undefined" -> <<"u", "n", "d", "e", "f", "i", "n", "e", "d">>
    [] v.t = "obj" -> <<"[object Object]">>
    [] v.t = "arr" -> JoinItems(v.vs, 1)
    [] OTHER -> v.s

JoinItems(vs, i) ==
  IF i > Len(vs) THEN <<>>
  ELSE (IF i > 1 THEN <<",">> ELSE <<>>)
       \o (IF Nullish(vs[i]) THEN <<>> ELSE ToStr(vs[i]))
       \o JoinItems(vs, i + 1)

\* MergeDelta without the assignment reasoningStarted = true: a handler
\* that forgets to record the section as open.
MergeDelta_FlagNeverSet(delta, started, show) ==
  LET reasoning == GetProp(delta, K_reasoning_content)
      content == GetProp(delta, K_content)
      opens == Truthy(reasoning) /\ ~started
      c1 == IF opens THEN JStr(THINK_OPEN \o ToStr(reasoning))
            ELSE IF Truthy(reasoning) THEN reasoning
            ELSE JStr(<<>>)
      closes == Truthy(content) /\ started
      combined == IF closes THEN JStr(ToStr(c1) \o THINK_CLOSE \o ToStr(content))
                  ELSE IF Truthy(content) THEN JStr(ToStr(c1) \o ToStr(content))
                  ELSE c1
      d1 == IF show /\ Truthy(combined) THEN SetProp(delta, K_content, combined) ELSE delta
      d2 == DeleteProp(d1, K_reasoning_content)
      d3 == IF ~Truthy(GetProp(d2, K_content)) THEN SetProp(d2, K_content, JStr(<<>>)) ELSE d2
  IN [delta |-> d3, started |-> IF show /\ closes THEN FALSE ELSE started]

\* MergeDelta without the assignment reasoningStarted = false: a handler
\* that goes on taking the section for open after it has closed it.
MergeDelta_FlagNeverCleared(delta, started, show) ==
  LET reasoning == GetProp(delta, K_reasoning_content)
      content == GetProp(delta, K_content)
      opens == Truthy(reasoning) /\ ~started
      c1 == IF opens THEN JStr(THINK_OPEN \o ToStr(reasoning))
            ELSE IF Truthy(reasoning) THEN reasoning
            ELSE JStr(<<>>)
      s1 == IF opens THEN TRUE ELSE started
      closes == Truthy(content) /\ s1
      combined == IF closes THEN JStr(ToStr(c1) \o THINK_CLOSE \o ToStr(content))
                  ELSE IF Truthy(content) THEN JStr(ToStr(c1) \o ToStr(content))
                  ELSE c1
      d1 == IF show /\ Truthy(combined) THEN SetProp(delta, K_content, combined) ELSE delta
      d2 == DeleteProp(d1, K_reasoning_content)
      d3 == IF ~Truthy(GetProp(d2, K_content)) THEN SetProp(d2, K_content, JStr(<<>>)) ELSE d2
  IN [delta |-> d3, started |-> IF show THEN s1 ELSE started]

(***************************************************************************)
(* The reasoning merge on one delta object (server.js 215-240).            *)
(* Returns the rewritten delta and the new value of reasoningStarted.      *)
(***************************************************************************)
MergeDelta(delta, started, show) ==
  LET reasoning == GetProp(delta, K_reasoning_content)
      content == GetProp(delta, K_content)
      opens == Truthy(reasoning) /\ ~started
      c1 == IF opens THEN JStr(THINK_OPEN \o ToStr(reasoning))
            ELSE IF Truthy(reasoning) THEN reasoning
            ELSE JStr(<<>>)
      s1 == IF opens THEN TRUE ELSE started
      closes == Truthy(content) /\ s1
      combined == IF closes THEN JStr(ToStr(c1) \o THINK_CLOSE \o ToStr(content))
                  ELSE IF Truthy(content) THEN JStr(ToStr(c1) \o ToStr(content))
                  ELSE c1
      s2 == IF closes THEN FALSE ELSE s1
      d1 == IF show /\ Truthy(combined) THEN SetProp(delta, K_content, combined) ELSE delta
      d2 == DeleteProp(d1, K_reasoning_content)
      d3 == IF ~Truthy(GetProp(d2, K_content)) THEN SetProp(d2, K_content, JStr(<<>>)) ELSE d2
  IN [delta |-> d3, started |-> IF show THEN s2 ELSE started]

\* data?.choices?.[0]?.delta
FirstChoices(data) == IF Nullish(data) THEN JUndefined ELSE GetProp(data, K_choices)
FirstChoice(data) ==
  IF Nullish(FirstChoices(data)) THEN JUndefined ELSE GetIndex0(FirstChoices(data))
FirstDelta(data) ==
  IF Nullish(FirstChoice(data)) THEN JUndefined ELSE GetProp(FirstChoice(data), K_delta)

\* A rewrite that rebuilds choices from the entry it has rewritten, the
\* other entries lost.
RewriteData_FirstChoiceOnly(data, started, show) ==
  LET choice == IF Nullish(data) \/ Nullish(GetProp(data, K_choices)) THEN JUndefined
                ELSE GetIndex0(GetProp(data, K_choices))
      delta == IF Nullish(choice) THEN JUndefined ELSE GetProp(choice, K_delta)
  IN IF Truthy(delta) /\ delta.t = "obj"
     THEN LET r == MergeDelta(delta, started, show)
          IN [data |-> SetProp(data, K_choices, JArr(<<SetProp(choice, K_delta, r.delta)>>)),
              started |-> r.started]
     ELSE [data |-> data, started |-> started]

(***************************************************************************)
(* The rewrite of one parsed frame (server.js 214-241): only               *)
(* data.choices[0].delta is touched.  Assignments to a delta that is not   *)
(* an object (an array or a primitive) do not show in JSON.stringify.      *)
(***************************************************************************)
RewriteData(data, started, show) ==
  LET choices == FirstChoices(data)
      choice == FirstChoice(data)
      delta == FirstDelta(data)
  IN IF Truthy(delta) /\ delta.t = "obj"
     THEN LET r == MergeDelta(delta, started, show)
              choice2 == SetProp(choice, K_delta, r.delta)
              choices2 == IF choices.t = "arr"
                          THEN JArr([choices.vs EXCEPT ![1] = choice2])
                          ELSE SetProp(choices, <<"0">>, choice2)
          IN [data |-> SetProp(data, K_choices, choices2), started |-> r.started]
     ELSE [data |-> data, started |-> started]

\* What the handler writes for a frame that parsed (server.js 243).
DataFrameText(data) == DATA_PREFIX \o JSONstringify(data) \o <<NL, NL>>

\* What the handler writes for a line that did not parse (server.js 245).
RawLineText(line) == line \o <<NL>>

\* line.includes("[DONE]") (server.js 204)
IsDoneLine(line) == includes(line, DONE_TOKEN)

(***************************************************************************)
(* One iteration of the for loop over the complete lines (server.js        *)
(* 201-247).  st is [buffer, reasoningStarted, written].                   *)
(***************************************************************************)
ProcessLine(st, line, show) ==
  IF ~startsWith(line, DATA_PREFIX) THEN st
  ELSE IF IsDoneLine(line) THEN [st EXCEPT !.written = Append(@, DONE_FRAME)]
  ELSE LET p == JSONparse(slice(line, 6)) IN
       IF p.ok
       THEN LET r == RewriteData(p.v, st.reasoningStarted, show) IN
            [st EXCEPT !.reasoningStarted = r.started,
                       !.written = Append(@, DataFrameText(r.data))]
       ELSE [st EXCEPT !.written = Append(@, RawLineText(line))]

RECURSIVE ProcessLines(_, _, _, _)
ProcessLines(st, lines, i, show) ==
  IF i > Len(lines) THEN st
  ELSE ProcessLines(ProcessLine(st, lines[i], show), lines, i + 1, show)

\* The text of one incoming chunk (server.js 197).
ChunkText(chunk) == toStringUtf8(chunk)

\* A data handler that splits the chunk alone, the fragment kept from the
\* chunk before it forgotten.
OnData_NoCarry(st, chunk, show) ==
  LET lines == split(ChunkText(chunk))
      last == lines[Len(lines)]
      complete == SubSeq(lines, 1, Len(lines) - 1)
  IN ProcessLines([st EXCEPT !.buffer = last], complete, 1, show)

(***************************************************************************)
(* upstream.data.on("data") (server.js 196-248).                           *)
(***************************************************************************)
OnData(st, chunk, show) ==
  LET lines == split(st.buffer \o ChunkText(chunk))
      last == lines[Len(lines)]
      complete == SubSeq(lines, 1, Len(lines) - 1)
  IN ProcessLines([st EXCEPT !.buffer = last], complete, 1, show)

\* The closure state of a fresh streaming path (server.js 193-194).
FreshStream == [buffer |-> <<>>, reasoningStarted |-> FALSE, written |-> <<>>]

(***************************************************************************)
(* Numbers of the request translator.  A number is J("num", literal); the  *)
(* literals are decimal digits with an optional fraction, and the two      *)
(* non-finite values below.  Signs, exponents and hexadecimal literals are *)
(* outside the modelled grammar.                                           *)
(***************************************************************************)
NaN == JNum(<<"NaN">>)
Infinity == JNum(<<"Infinity">>)
INFINITY_LIT == <<"I", "n", "f", "i", "n", "i", "t", "y">>

RECURSIVE TrimLeft(_)
TrimLeft(s) == IF s # <<>> /\ Head(s) \in WHITESPACE THEN TrimLeft(Tail(s)) ELSE s

RECURSIVE TrimRight(_)
TrimRight(s) ==
  IF s # <<>> /\ s[Len(s)] \in WHITESPACE THEN TrimRight(SubSeq(s, 1, Len(s) - 1)) ELSE s

\* +v (ToNumber)
UnaryPlus(v) ==
  CASE v.t = "undefined" -> NaN
    [] v.t = "null" -> JNum(<<"0">>)
    [] v.t = "bool" -> IF v.s = TRUE_LIT THEN JNum(<<"1">>) ELSE JNum(<<"0">>)
    [] v.t = "num" -> v
    [] v.t = "str" ->
         LET s == TrimRight(TrimLeft(v.s)) IN
         IF s = <<>> THEN JNum(<<"0">>)
         ELSE IF IsDecimal(s) THEN Decimal(s)
         ELSE IF s = INFINITY_LIT THEN Infinity
         ELSE NaN
    [] v.t = "arr" -> IF v.vs = <<>> THEN JNum(<<"0">>) ELSE NaN
    [] OTHER -> NaN

\* Number.isFinite
NumberIsFinite(v) == v.t = "num" /\ v # NaN /\ v # Infinity

(***************************************************************************)
(* Literals of the request handler.  Keys, types and model names are text; *)
(* a message or an upstream model id, which the code never inspects, is a  *)
(* text of one token.                                                      *)
(***************************************************************************)
K_error == <<"e", "r", "r", "o", "r">>
K_type == <<"t", "y", "p", "e">>
K_message == <<"m", "e", "s", "s", "a", "g", "e">>
K_code == <<"c", "o", "d", "e">>
K_model == <<"m", "o", "d", "e", "l">>
K_index == <<"i", "n", "d", "e", "x">>
K_role == <<"r", "o", "l", "e">>
K_finish_reason ==
  <<"f", "i", "n", "i", "s", "h", "_", "r", "e", "a", "s", "o", "n">>
K_usage == <<"u", "s", "a", "g", "e">>
K_id == <<"i", "d">>
K_object == <<"o", "b", "j", "e", "c", "t">>
K_created == <<"c", "r", "e", "a", "t", "e", "d">>
T_invalid_request_error ==
  <<"i", "n", "v", "a", "l", "i", "d", "_", "r", "e", "q", "u", "e", "s",
    "t", "_", "e", "r", "r", "o", "r">>
T_server_error ==
  <<"s", "e", "r", "v", "e", "r", "_", "e", "r", "r", "o", "r">>
T_upstream_error ==
  <<"u", "p", "s", "t", "r", "e", "a", "m", "_", "e", "r", "r", "o", "r">>
MSG_key_missing ==
  <<"Server misconfigured: NIM_API_KEY is missing (set it in Render environment variables).">>
MSG_bad_model == <<"Missing or invalid 'model' in request body">>
MSG_bad_messages == <<"Missing or invalid 'messages' array in request body">>
MSG_upstream_prefix == <<"Upstream error ">>
MSG_type_error == <<"TypeError">>

\* The decimal text of a natural number.
DigitChar(d) == <<"0", "1", "2", "3", "4", "5", "6", "7", "8", "9">>[d + 1]
RECURSIVE IntText(_)
IntText(n) == IF n < 10 THEN <<DigitChar(n)>> ELSE IntText(n \div 10) \o <<DigitChar(n % 10)>>

\* { error: { message, type, code } }
ErrorEnvelope(message, type, code) ==
  JObj(<<K_error>>,
       <<JObj(<<K_message, K_type, K_code>>,
              <<JStr(message), JStr(type), JNum(IntText(code))>>)>>)

\* What the caller has been sent through res.status(..).json(..) or the headers.
NoResponse == [status |-> 0, contentType |-> "none", json |-> JUndefined]
JsonResponse(status, json) ==
  [status |-> status, contentType |-> "application/json", json |-> json]
EventStreamResponse ==
  [status |-> 200, contentType |-> "text/event-stream", json |-> JUndefined]

(***************************************************************************)
(* Model resolution (server.js 32-40, 66-75, 143).                         *)
(***************************************************************************)
M_gpt35 == <<"g", "p", "t", "-", "3", ".", "5", "-", "t", "u", "r", "b", "o">>
M_gpt4 == <<"g", "p", "t", "-", "4">>
M_gpt4turbo == <<"g", "p", "t", "-", "4", "-", "t", "u", "r", "b", "o">>
M_gpt4o == <<"g", "p", "t", "-", "4", "o">>
M_opus == <<"c", "l", "a", "u", "d", "e", "-", "3", "-", "o", "p", "u", "s">>
M_sonnet ==
  <<"c", "l", "a", "u", "d", "e", "-", "3", "-", "s", "o", "n", "n", "e",
    "t">>
M_gemini == <<"g", "e", "m", "i", "n", "i", "-", "p", "r", "o">>

MODEL_MAPPING ==
  (M_gpt35 :> <<"nvidia/llama-3.1-nemotron-ultra-253b-v1">>)
  @@ (M_gpt4 :> <<"qwen/qwen3-coder-480b-a35b-instruct">>)
  @@ (M_gpt4turbo :> <<"moonshotai/kimi-k2-instruct-0905">>)
  @@ (M_gpt4o :> <<"moonshotai/kimi-k2-instruct-0905">>)
  @@ (M_opus :> <<"openai/gpt-oss-120b">>)
  @@ (M_sonnet :> <<"openai/gpt-oss-20b">>)
  @@ (M_gemini :> <<"qwen/qwen3-next-80b-a3b-thinking">>)

FALLBACK_LARGE == <<"meta/llama-3.1-405b-instruct">>
FALLBACK_MID == <<"meta/llama-3.1-70b-instruct">>
FALLBACK_SMALL == <<"meta/llama-3.1-8b-instruct">>

S_405b == <<"4", "0", "5", "b">>
S_opus == <<"o", "p", "u", "s">>
S_70b == <<"7", "0", "b">>
S_sonnet == <<"s", "o", "n", "n", "e", "t">>
S_gemini == <<"g", "e", "m", "i", "n", "i">>

P_constructor == <<"c", "o", "n", "s", "t", "r", "u", "c", "t", "o", "r">>
P_toString == <<"t", "o", "S", "t", "r", "i", "n", "g">>
P_valueOf == <<"v", "a", "l", "u", "e", "O", "f">>
P_hasOwnProperty ==
  <<"h", "a", "s", "O", "w", "n", "P", "r", "o", "p", "e", "r", "t", "y">>
P_proto == <<"_", "_", "p", "r", "o", "t", "o", "_", "_">>

\* Properties every object literal inherits from Object.prototype; each
\* reads as a function, __proto__ as an object.
ObjectPrototypeProps ==
  {P_constructor, P_toString, P_valueOf, P_hasOwnProperty, P_proto}

JFunction(name) == J("function", name, <<>>, <<>>)

UPPER == <<"A", "B", "C", "D", "E", "F", "G", "H", "I", "J", "K", "L", "M",
           "N", "O", "P", "Q", "R", "S", "T", "U", "V", "W", "X", "Y", "Z">>
LOWER == <<"a", "b", "c", "d", "e", "f", "g", "h", "i", "j", "k", "l", "m",
           "n", "o", "p", "q", "r", "s", "t", "u", "v", "w", "x", "y", "z">>

LowerChar(c) ==
  IF \E i \in 1..26 : UPPER[i] = c
  THEN LOWER[CHOOSE i \in 1..26 : UPPER[i] = c]
  ELSE c

toLowerCase(s) == [i \in 1..Len(s) |-> LowerChar(s[i])]

\* pickFallbackModel(requestedModel)
pickFallbackModel(requestedModel) ==
  LET modelLower == toLowerCase(IF Truthy(requestedModel) THEN ToStr(requestedModel)
                                ELSE <<>>)
  IN IF \/ includes(modelLower, S_405b)
        \/ includes(modelLower, M_gpt4)
        \/ includes(modelLower, S_opus)
     THEN JStr(FALLBACK_LARGE)
     ELSE IF \/ includes(modelLower, S_70b)
             \/ includes(modelLower, S_sonnet)
             \/ includes(modelLower, S_gemini)
          THEN JStr(FALLBACK_MID)
          ELSE JStr(FALLBACK_SMALL)

\* MODEL_MAPPING[model]: an own key, else what the prototype chain holds.
MappingLookup(model) ==
  IF model.s \in DOMAIN MODEL_MAPPING THEN JStr(MODEL_MAPPING[model.s])
  ELSE IF model.s \in ObjectPrototypeProps THEN JFunction(model.s)
  ELSE JUndefined

\* MODEL_MAPPING[model] || pickFallbackModel(model)   (server.js 143)
nimModel(model) ==
  IF Truthy(MappingLookup(model)) THEN MappingLookup(model) ELSE pickFallbackModel(model)

(***************************************************************************)
(* Validation and request translation (server.js 109-156).                 *)
(***************************************************************************)
ENABLE_THINKING_MODE == FALSE

\* A handler with no credential check.
KeyMissing_Never(c) == FALSE

\* !NIM_API_KEY
KeyMissing(c) == ~c.NIM_API_KEY

\* A check of the type of model alone, which lets the empty string pass.
InvalidModel_TypeOnly(model) == model.t # "str"

\* !model || typeof model !== "string"
InvalidModel(model) == ~Truthy(model) \/ model.t # "str"

\* !Array.isArray(messages)
InvalidMessages(messages) == messages.t # "arr"

\* toBool(v): only true, "true", 1 and "1"
toBool(v) ==
  \/ v = JTrue
  \/ v = JStr(TRUE_LIT)
  \/ v = JNum(<<"1">>)
  \/ v = JStr(<<"1">>)

\* parseInt(v, 10): the leading decimal digits of String(v), else NaN.
parseInt10(v) ==
  LET s == TrimLeft(ToStr(v))
      e == IF s = <<>> THEN 1 ELSE DigitsEnd(s, 1)
  IN IF e = 1 THEN NaN ELSE JNum(StripLeadingZeros(SubSeq(s, 1, e - 1)))

DEFAULT_TEMPERATURE == JNum(<<"0", ".", "6">>)
DEFAULT_MAX_TOKENS == JNum(<<"2", "0", "4", "8">>)

Temperature(b) ==
  IF NumberIsFinite(UnaryPlus(b.temperature)) THEN UnaryPlus(b.temperature)
  ELSE DEFAULT_TEMPERATURE

MaxTokens(b) ==
  IF NumberIsFinite(UnaryPlus(b.max_tokens)) THEN parseInt10(b.max_tokens)
  ELSE DEFAULT_MAX_TOKENS

\* The response of an early return of the handler, or NoResponse.
EarlyResponse(c, b) ==
  IF KeyMissing(c)
  THEN JsonResponse(500, ErrorEnvelope(MSG_key_missing, T_server_error, 500))
  ELSE IF InvalidModel(b.model)
  THEN JsonResponse(400, ErrorEnvelope(MSG_bad_model, T_invalid_request_error, 400))
  ELSE IF InvalidMessages(b.messages)
  THEN JsonResponse(400, ErrorEnvelope(MSG_bad_messages, T_invalid_request_error, 400))
  ELSE NoResponse

NoRequest ==
  [sent |-> FALSE, model |-> JUndefined, messages |-> JUndefined,
   temperature |-> JUndefined, max_tokens |-> JUndefined, stream |-> FALSE,
   thinking |-> FALSE]

\* nimRequest (server.js 135-156)
BuildNimRequest(c, b) ==
  [sent |-> TRUE,
   model |-> nimModel(b.model),
   messages |-> b.messages,
   temperature |-> Temperature(b),
   max_tokens |-> MaxTokens(b),
   stream |-> IF c.FORCE_NO_STREAM THEN FALSE ELSE toBool(b.stream),
   thinking |-> ENABLE_THINKING_MODE]

(***************************************************************************)
(* The upstream response as axios hands it over (server.js 159-169).       *)
(* With responseType "json" the body text is parsed when it parses and     *)
(* left a string when it does not; with responseType "stream" the data is  *)
(* the stream object, whatever the status.                                 *)
(***************************************************************************)
AxiosJsonData(bodyText) ==
  IF bodyText # <<>> /\ JSONparse(bodyText).ok THEN JSONparse(bodyText).v
  ELSE JStr(bodyText)

STREAM_OBJECT == J("stream", <<>>, <<>>, <<>>)

\* typeof data === "object"
TypeofObject(data) == data.t \in {"obj", "arr", "null", "stream"}

\* The serialisable dump express would send of a stream object whose
\* property graph has no cycle; it is not the upstream body.
STREAM_DUMP == JObj(<<<<"_readableState">>>>, <<JObj(<<>>, <<>>)>>)

\* The catch block (server.js 289-310) for an error with no response.
CatchResponse(message) ==
  JsonResponse(500, ErrorEnvelope(message, T_invalid_request_error, 500))

(***************************************************************************)
(* Error forwarding (server.js 172-185).  res.json of a stream object      *)
(* either throws on the cycles of its property graph, which the catch      *)
(* block turns into a 500, or sends a dump of the object: the outcome is   *)
(* in `throws`.                                                            *)
(***************************************************************************)
ForwardError(status, data, throws) ==
  IF TypeofObject(data)
  THEN IF data.t = "stream"
       THEN IF throws THEN CatchResponse(MSG_type_error)
            ELSE JsonResponse(status, STREAM_DUMP)
       ELSE JsonResponse(status, data)
  ELSE JsonResponse(status,
         ErrorEnvelope(IF Truthy(data) THEN ToStr(data)
                       ELSE MSG_upstream_prefix \o IntText(status),
                       T_upstream_error, status))

(***************************************************************************)
(* The non-streaming translation (server.js 260-288).                      *)
(***************************************************************************)
K_prompt_tokens ==
  <<"p", "r", "o", "m", "p", "t", "_", "t", "o", "k", "e", "n", "s">>
K_completion_tokens ==
  <<"c", "o", "m", "p", "l", "e", "t", "i", "o", "n", "_", "t", "o", "k",
    "e", "n", "s">>
K_total_tokens ==
  <<"t", "o", "t", "a", "l", "_", "t", "o", "k", "e", "n", "s">>
T_assistant == <<"a", "s", "s", "i", "s", "t", "a", "n", "t">>
T_stop == <<"s", "t", "o", "p">>
T_chat_completion == <<"chat.completion">>
T_now_id == <<"chatcmpl-", "Date.now()">>
T_now == <<"Date.now()/1000">>
THINK_CLOSE_BUFFERED == <<NL>> \o THINK_CLOSE

\* v?.k
OptProp(v, k) == IF Nullish(v) THEN JUndefined ELSE GetProp(v, k)

\* a || b
OrElse(a, b) == IF Truthy(a) THEN a ELSE b

\* fullContent of one choice (server.js 266-270)
FullContent(choice, show) ==
  LET message == OptProp(choice, K_message)
      content == OrElse(OptProp(message, K_content), JStr(<<>>))
      reasoning == OptProp(message, K_reasoning_content)
  IN IF show /\ Truthy(reasoning)
     THEN JStr(THINK_OPEN \o ToStr(reasoning) \o THINK_CLOSE_BUFFERED \o ToStr(content))
     ELSE content

\* One entry of choices.map (server.js 265-280); choice is not null here.
OpenAIChoice(choice, idx, show) ==
  JObj(<<K_index, K_message, K_finish_reason>>,
       <<IF NumberIsFinite(GetProp(choice, K_index)) THEN GetProp(choice, K_index)
         ELSE JNum(IntText(idx)),
         JObj(<<K_role, K_content>>,
              <<OrElse(OptProp(OptProp(choice, K_message), K_role), JStr(T_assistant)),
                FullContent(choice, show)>>),
         OrElse(GetProp(choice, K_finish_reason), JStr(T_stop))>>)

ZERO_USAGE ==
  JObj(<<K_prompt_tokens, K_completion_tokens, K_total_tokens>>,
       <<JNum(<<"0">>), JNum(<<"0">>), JNum(<<"0">>)>>)

\* upstream.data.choices || []
UpstreamChoices(data) == OrElse(GetProp(data, K_choices), JArr(<<>>))

\* The evaluation of openaiResponse throws a TypeError: upstream.data is
\* null, choices has no map method, or an entry of choices is null.
TranslationThrows(data) ==
  \/ Nullish(data)
  \/ UpstreamChoices(data).t # "arr"
  \/ \E i \in 1..Len(UpstreamChoices(data).vs) : Nullish(UpstreamChoices(data).vs[i])

\* A translation that passes on the model name the upstream reports.
openaiResponse_UpstreamModel(model, data, show) ==
  LET choices == UpstreamChoices(data).vs IN
  JObj(<<K_id, K_object, K_created, K_model, K_choices, K_usage>>,
       <<JStr(T_now_id), JStr(T_chat_completion), JNum(T_now), GetProp(data, K_model),
         JArr([i \in 1..Len(choices) |-> OpenAIChoice(choices[i], i - 1, show)]),
         OrElse(GetProp(data, K_usage), ZERO_USAGE)>>)

\* openaiResponse (server.js 260-286)
openaiResponse(model, data, show) ==
  LET choices == UpstreamChoices(data).vs IN
  JObj(<<K_id, K_object, K_created, K_model, K_choices, K_usage>>,
       <<JStr(T_now_id), JStr(T_chat_completion), JNum(T_now), model,
         JArr([i \in 1..Len(choices) |-> OpenAIChoice(choices[i], i - 1, show)]),
         OrElse(GetProp(data, K_usage), ZERO_USAGE)>>)

\* The response of the non-streaming path, the catch block included.
BufferedResponse(model, data, show) ==
  IF TranslationThrows(data) THEN CatchResponse(MSG_type_error)
  ELSE JsonResponse(200, openaiResponse(model, data, show))

(***************************************************************************)
(* Bounds of the model.                                                    *)
(***************************************************************************)
\* The largest chunk, in bytes, of the byte-by-byte chunkings; the upstream
\* also hands over everything in flight as one chunk.
MaxChunk == 2
\* The chunk size of the coarse chunkings.
CoarseChunk == 30
\* Events the upstream sends on one stream, per specification.
MaxEvents == 2
MaxDeltas == 3
MaxSpecEvents == 2

(***************************************************************************)
(* State.                                                                  *)
(***************************************************************************)
VARIABLES
  cfg,               \* the process configuration (server.js 15, 22, 25)
  pc,                \* "idle", "awaiting", "streaming" or "closed"
  body,              \* req.body of the request being handled
  nimRequest,        \* the request sent upstream, NoRequest before that
  upstreamCalls,     \* how many times axios.post was called
  upstream,          \* the upstream response: its status and body text
  res,               \* the status, content type and JSON body sent
  pending,           \* upstream bytes in flight, not yet handed over
  produced,          \* how many events the upstream has sent
  delivered,         \* every byte handed to the data handler so far
  buffer,            \* the reassembly buffer (server.js 193)
  reasoningStarted,  \* the reasoning-open flag (server.js 194)
  written,           \* the res.write calls so far, in order
  ended,             \* res.end() was called by a stream handler
  faulted,           \* the upstream stream emitted "error"
  streams            \* the requests streaming at the same time, by request

vars == <<cfg, pc, body, nimRequest, upstreamCalls, upstream, res, pending,
          produced, delivered, buffer, reasoningStarted, written, ended, faulted,
          streams>>

reqVars == <<body, nimRequest, upstreamCalls, upstream, res>>
streamVars == <<pending, produced, delivered, buffer, reasoningStarted, written,
                ended, faulted>>

(***************************************************************************)
(* Inputs.                                                                 *)
(***************************************************************************)
R_Sonnet == <<"M", "y", "-", "S", "O", "N", "N", "E", "T">>
R_mistral == <<"m", "i", "s", "t", "r", "a", "l">>
R_gpt4mini == <<"G", "P", "T", "-", "4", "-", "m", "i", "n", "i">>
T_user == <<"u", "s", "e", "r">>
T_hi == <<"h", "i">>

Configs ==
  [NIM_API_KEY : BOOLEAN, FORCE_NO_STREAM : BOOLEAN, SHOW_REASONING : BOOLEAN]

RequestModels ==
  {JUndefined, JStr(<<>>), JNum(<<"5">>), JStr(M_gpt4), JStr(R_gpt4mini),
   JStr(R_Sonnet), JStr(R_mistral), JStr(P_constructor)}

RequestMessages ==
  {JUndefined, JStr(T_hi),
   JArr(<<JObj(<<K_role, K_content>>, <<JStr(T_user), JStr(T_hi)>>)>>)}

Bodies ==
  [model : RequestModels,
   messages : RequestMessages,
   temperature : {JUndefined, JNum(<<"1">>)},
   max_tokens : {JUndefined, JNull},
   stream : {JUndefined, JTrue}]

NoBody ==
  [model |-> JUndefined, messages |-> JUndefined, temperature |-> JUndefined,
   max_tokens |-> JUndefined, stream |-> JUndefined]

NoUpstream == [status |-> 0, text |-> <<>>]

\* One streamed chunk object { choices: [ { delta } ] }.
ChunkObject(delta) ==
  JObj(<<K_choices>>, <<JArr(<<JObj(<<K_delta>>, <<delta>>)>>)>>)

\* One server-sent event: a line and the blank line that ends the event.
Event(line) == line \o <<NL, NL>>
DataEvent(v) == Event(DATA_PREFIX \o JSONstringify(v))

D_reasoning(r) == JObj(<<K_reasoning_content>>, <<JStr(r)>>)
D_content(c) == JObj(<<K_content>>, <<JStr(c)>>)

EV_DONE == Event(DATA_PREFIX \o DONE_TOKEN)
EV_CONTENT == DataEvent(ChunkObject(D_content(<<"C">>)))
EV_REASONING_A == DataEvent(ChunkObject(D_reasoning(<<"A">>)))
EV_REASONING_B == DataEvent(ChunkObject(D_reasoning(<<"B">>)))

SpecEvents == {EV_REASONING_A, EV_CONTENT, EV_DONE}

UpstreamStatuses == {200, 429}

T_rate == <<"r", "a", "t", "e">>
UP_ERROR_JSON ==
  JSONstringify(JObj(<<K_error>>, <<JObj(<<K_message>>, <<JStr(T_rate)>>)>>))
UP_ERROR_TEXT == <<"B", "u", "s", "y">>
UP_COMPLETION ==
  JSONstringify(
    JObj(<<K_model, K_choices>>,
         <<JStr(<<"n", "i", "m">>),
           JArr(<<JObj(<<K_message>>,
                       <<JObj(<<K_reasoning_content, K_content>>,
                              <<JStr(<<"R">>), JStr(<<"C">>)>>)>>)>>)>>))

UpstreamBodies == {UP_ERROR_JSON, UP_ERROR_TEXT, <<>>, UP_COMPLETION, NULL_LIT}

(***************************************************************************)
(* Requests streaming at the same time.  Every call of the handler runs    *)
(* lines 193-194 and so has closure variables of its own; its "data",      *)
(* "end" and "error" handlers close over those and over its own res.       *)
(***************************************************************************)
Requests == {1, 2}

\* One cell of buffer and reasoningStarted for the whole process, as a
\* declaration outside the handler would make it.
ClosureOf_Shared(r) == 1

\* The closure a request's handlers read and write: the one its own call
\* of the handler created (server.js 193-194).
ClosureOf(r) == r

\* One request on the streaming path: the bytes in flight to it, the
\* chunks its data handler has been given, its closure variables, and
\* what its caller was sent.
FreshRequest ==
  [pending |-> <<>>, produced |-> 0, chunks |-> <<>>,
   buffer |-> FreshStream.buffer, reasoningStarted |-> FreshStream.reasoningStarted,
   written |-> FreshStream.written, ended |-> FALSE, faulted |-> FALSE]

NoStreams == [r \in Requests |-> FreshRequest]

(***************************************************************************)
(* Init: the process is configured and no request has arrived.             *)
(* The source sets SHOW_REASONING to false (server.js 25); the model       *)
(* covers both settings of the toggle, which lines 219-236 and 268-270     *)
(* are written for.                                                        *)
(***************************************************************************)
Init ==
  /\ cfg \in Configs
  /\ pc = "idle"
  /\ body = NoBody
  /\ nimRequest = NoRequest
  /\ upstreamCalls = 0
  /\ upstream = NoUpstream
  /\ res = NoResponse
  /\ pending = <<>>
  /\ produced = 0
  /\ delivered = <<>>
  /\ buffer = FreshStream.buffer
  /\ reasoningStarted = FreshStream.reasoningStarted
  /\ written = FreshStream.written
  /\ ended = FALSE
  /\ faulted = FALSE
  /\ streams = NoStreams

(***************************************************************************)
(* app.post("/v1/chat/completions") up to the await (server.js 107-169):   *)
(* an early return answers the caller, otherwise one upstream call is made.*)
(***************************************************************************)
Post(b) ==
  /\ pc = "idle"
  /\ body' = b
  /\ IF EarlyResponse(cfg, b) # NoResponse
     THEN /\ res' = EarlyResponse(cfg, b)
          /\ pc' = "closed"
          /\ UNCHANGED <<nimRequest, upstreamCalls>>
     ELSE /\ nimRequest' = BuildNimRequest(cfg, b)
          /\ upstreamCalls' = upstreamCalls + 1
          /\ pc' = "awaiting"
          /\ UNCHANGED res
  /\ UNCHANGED <<cfg, upstream>>
  /\ UNCHANGED streamVars
  /\ UNCHANGED streams

\* upstream.data for a response with the given body text
UpstreamData(text) == IF nimRequest.stream THEN STREAM_OBJECT ELSE AxiosJsonData(text)

\* The await resolves with status >= 400 (server.js 172-185).
UpstreamErrorStatus(status, text, throws) ==
  /\ pc = "awaiting"
  /\ status >= 400
  /\ upstream' = [status |-> status, text |-> text]
  /\ res' = ForwardError(status, UpstreamData(text), throws)
  /\ pc' = "closed"
  /\ UNCHANGED <<cfg, body, nimRequest, upstreamCalls>>
  /\ UNCHANGED streamVars
  /\ UNCHANGED streams

\* The await resolves with a stream (server.js 188-257): the headers are
\* set, the closure state is created and the handlers are registered.
UpstreamStreamOpens(status) ==
  /\ pc = "awaiting"
  /\ status < 400
  /\ nimRequest.stream
  /\ upstream' = [status |-> status, text |-> <<>>]
  /\ res' = EventStreamResponse
  /\ buffer' = FreshStream.buffer
  /\ reasoningStarted' = FreshStream.reasoningStarted
  /\ written' = FreshStream.written
  /\ pc' = "streaming"
  /\ UNCHANGED <<cfg, body, nimRequest, upstreamCalls>>
  /\ UNCHANGED <<pending, produced, delivered, ended, faulted>>
  /\ UNCHANGED streams

\* The await resolves with a complete body (server.js 259-288).
UpstreamBuffered(status, text) ==
  /\ pc = "awaiting"
  /\ status < 400
  /\ ~nimRequest.stream
  /\ upstream' = [status |-> status, text |-> text]
  /\ res' = BufferedResponse(body.model, AxiosJsonData(text), cfg.SHOW_REASONING)
  /\ pc' = "closed"
  /\ UNCHANGED <<cfg, body, nimRequest, upstreamCalls>>
  /\ UNCHANGED streamVars
  /\ UNCHANGED streams

MSG_timeout == <<"timeout of 600000ms exceeded">>

\* The await rejects with no response: network, DNS or timeout
\* (server.js 289-310).
AxiosRejects ==
  /\ pc = "awaiting"
  /\ res' = CatchResponse(MSG_timeout)
  /\ pc' = "closed"
  /\ UNCHANGED <<cfg, body, nimRequest, upstreamCalls, upstream>>
  /\ UNCHANGED streamVars
  /\ UNCHANGED streams

(***************************************************************************)
(* The upstream and the transport while the stream is open.                *)
(***************************************************************************)
\* The upstream sends one more event; at most MaxChunk - 1 bytes of the
\* events before it are still in flight, so a chunk may span events.
Produce(e, max) ==
  /\ pc = "streaming"
  /\ produced < max
  /\ Len(pending) < MaxChunk
  /\ pending' = pending \o e
  /\ produced' = produced + 1
  /\ UNCHANGED <<cfg, pc, delivered, buffer, reasoningStarted, written, ended, faulted>>
  /\ UNCHANGED reqVars
  /\ UNCHANGED streams

\* upstream.data emits "data" with the next k bytes (server.js 196-248).
Data(k) ==
  /\ pc = "streaming"
  /\ k \in 1..Len(pending)
  /\ LET chunk == SubSeq(pending, 1, k)
         st == OnData([buffer |-> buffer, reasoningStarted |-> reasoningStarted,
                       written |-> written], chunk, cfg.SHOW_REASONING)
     IN /\ buffer' = st.buffer
        /\ reasoningStarted' = st.reasoningStarted
        /\ written' = st.written
        /\ delivered' = delivered \o chunk
        /\ pending' = SubSeq(pending, k + 1, Len(pending))
  /\ UNCHANGED <<cfg, pc, produced, ended, faulted>>
  /\ UNCHANGED reqVars
  /\ UNCHANGED streams

\* upstream.data emits "end" (server.js 250).
End ==
  /\ pc = "streaming"
  /\ pending = <<>>
  /\ ended' = TRUE
  /\ pc' = "closed"
  /\ UNCHANGED <<cfg, pending, produced, delivered, buffer, reasoningStarted, written,
                 faulted>>
  /\ UNCHANGED reqVars
  /\ UNCHANGED streams

\* upstream.data emits "error" (server.js 251-254); the bytes in flight
\* are lost and the stream emits nothing after it.
Error ==
  /\ pc = "streaming"
  /\ ended' = TRUE
  /\ faulted' = TRUE
  /\ pending' = <<>>
  /\ pc' = "closed"
  /\ UNCHANGED <<cfg, produced, delivered, buffer, reasoningStarted, written>>
  /\ UNCHANGED reqVars
  /\ UNCHANGED streams

FineSizes == (1..Min(MaxChunk, Len(pending))) \cup {Len(pending)}
CoarseSizes == {Min(CoarseChunk, Len(pending)), Len(pending)}

Next ==
  \/ \E b \in Bodies : Post(b)
  \/ \E status \in UpstreamStatuses, text \in UpstreamBodies, throws \in BOOLEAN :
       UpstreamErrorStatus(status, text, throws)
  \/ \E status \in UpstreamStatuses : UpstreamStreamOpens(status)
  \/ \E status \in UpstreamStatuses, text \in UpstreamBodies :
       UpstreamBuffered(status, text)
  \/ AxiosRejects
  \/ \E e \in SpecEvents : Produce(e, MaxSpecEvents)
  \/ \E k \in CoarseSizes : Data(k)
  \/ End
  \/ Error

Spec == Init /\ [][Next]_vars

(***************************************************************************)
(* SpecStream: the streaming path alone, from the state UpstreamStreamOpens*)
(* leaves, with byte-by-byte chunkings of streams of framing events.       *)
(***************************************************************************)
StreamBody ==
  [model |-> JStr(M_gpt4),
   messages |-> JArr(<<JObj(<<K_role, K_content>>, <<JStr(T_user), JStr(T_hi)>>)>>),
   temperature |-> JUndefined,
   max_tokens |-> JUndefined,
   stream |-> JTrue]

StreamConfigs ==
  [NIM_API_KEY : {TRUE}, FORCE_NO_STREAM : {FALSE}, SHOW_REASONING : BOOLEAN]

\* The state after the handler has set up the streaming path.
InitStreaming ==
  /\ cfg \in StreamConfigs
  /\ pc = "streaming"
  /\ body = StreamBody
  /\ nimRequest = BuildNimRequest(cfg, StreamBody)
  /\ upstreamCalls = 1
  /\ upstream = [status |-> 200, text |-> <<>>]
  /\ res = EventStreamResponse
  /\ pending = <<>>
  /\ produced = 0
  /\ delivered = <<>>
  /\ buffer = FreshStream.buffer
  /\ reasoningStarted = FreshStream.reasoningStarted
  /\ written = FreshStream.written
  /\ ended = FALSE
  /\ faulted = FALSE
  /\ streams = NoStreams

\* content holding one two-byte character, as the upstream encodes it
EV_MULTIBYTE == DataEvent(ChunkObject(D_content(<<LEAD_BYTE, CONT_BYTE>>)))
\* content whose text is the six characters [DONE]
EV_DONE_TEXT == DataEvent(ChunkObject(D_content(DONE_TOKEN)))
\* a data line whose payload is not JSON
EV_BAD == Event(DATA_PREFIX \o <<"{", "b">>)
\* a comment line
EV_COMMENT == Event(<<":", "k">>)

StreamEvents == {EV_CONTENT, EV_MULTIBYTE, EV_DONE_TEXT, EV_BAD, EV_COMMENT, EV_DONE}

NextStream ==
  \/ \E e \in StreamEvents : Produce(e, MaxEvents)
  \/ \E k \in FineSizes : Data(k)
  \/ End
  \/ Error

SpecStream == InitStreaming /\ [][NextStream]_vars

(***************************************************************************)
(* Vocabulary of the properties.                                           *)
(***************************************************************************)
\* Every byte has been handed over and the stream has not failed.
AllDelivered == pc \in {"streaming", "closed"} /\ pending = <<>> /\ ~faulted

\* The complete lines of a text: all fragments but the last.
CompleteLines(text) == SubSeq(split(text), 1, Len(split(text)) - 1)

IsDataLine(line) == startsWith(line, DATA_PREFIX)

\* The data lines among the complete lines of the upstream text so far.
UpstreamDataLines == SelectSeq(CompleteLines(toStringUtf8(delivered)), IsDataLine)

\* What the handler writes when the bytes arrive as one chunk.
WrittenInOneChunk(bytes, show) == OnData(FreshStream, bytes, show).written

\* A frame with its terminator: data: <payload> and a blank line.
IsCompleteFrame(w) ==
  /\ startsWith(w, DATA_PREFIX)
  /\ Len(w) >= Len(DATA_PREFIX) + 2
  /\ w[Len(w)] = NL
  /\ w[Len(w) - 1] = NL
  /\ \A i \in 1..(Len(w) - 2) : w[i] # NL

CountOf(seq, x) == Cardinality({i \in 1..Len(seq) : seq[i] = x})

DONE_LINE == DATA_PREFIX \o DONE_TOKEN

\* The upstream text has one termination-token line, and it is its last line.
EndsWithOneDoneLine ==
  LET lines == SelectSeq(CompleteLines(toStringUtf8(delivered)), LAMBDA l : l # <<>>) IN
  /\ Len(lines) > 0
  /\ lines[Len(lines)] = DONE_LINE
  /\ CountOf(lines, DONE_LINE) = 1

(***************************************************************************)
(* C1: whatever the chunking, once a well-formed upstream byte sequence    *)
(* has been handed over the frames written are those written when the      *)
(* whole sequence arrives as one chunk.                                    *)
(***************************************************************************)
C1_ChunkBoundaryInvariant ==
  AllDelivered => written = WrittenInOneChunk(delivered, cfg.SHOW_REASONING)

(***************************************************************************)
(* C2: when the upstream stream ends with its termination-token line and   *)
(* the outbound stream has been ended, exactly one termination frame has   *)
(* been written.                                                           *)
(***************************************************************************)
C2_OneTerminationFrame ==
  (ended /\ ~faulted /\ EndsWithOneDoneLine) => CountOf(written, DONE_FRAME) = 1

(***************************************************************************)
(* C8: every write to the caller is a complete frame, data: <payload>      *)
(* followed by a blank line.                                               *)
(***************************************************************************)
C8_EveryWriteIsCompleteFrame ==
  \A i \in 1..Len(written) : IsCompleteFrame(written[i])

(***************************************************************************)
(* C10: the step in which the upstream stream fails ends the outbound      *)
(* stream and writes nothing (no error frame, no buffered fragment), every *)
(* frame written before it is a complete frame, and nothing is written     *)
(* after it.                                                               *)
(***************************************************************************)
C10_StreamFault ==
  [][faulted' => /\ written' = written
                 /\ ended'
                 /\ \A i \in 1..Len(written') : IsCompleteFrame(written'[i])]_vars

\* The part of C10 that does not rest on the framing of C8.
C10_FaultWritesNothing ==
  [][faulted' => (written' = written /\ ended')]_vars

(***************************************************************************)
(* SpecMerge: the streaming path alone, with coarse chunkings of longer    *)
(* streams of delta events.                                                *)
(***************************************************************************)
EV_BOTH ==
  DataEvent(ChunkObject(JObj(<<K_reasoning_content, K_content>>,
                             <<JStr(<<"B">>), JStr(<<"C">>)>>)))
EV_ROLE == DataEvent(ChunkObject(JObj(<<K_role>>, <<JStr(T_assistant)>>)))
\* two choices, the second one carrying reasoning
EV_SECOND ==
  DataEvent(JObj(<<K_choices>>,
                 <<JArr(<<JObj(<<K_delta>>, <<D_content(<<"C">>)>>),
                          JObj(<<K_delta>>, <<D_reasoning(<<"A">>)>>)>>)>>))
\* a frame with no choices
EV_USAGE == DataEvent(JObj(<<K_usage>>, <<JNull>>))

MergeEvents ==
  {EV_REASONING_A, EV_REASONING_B, EV_CONTENT, EV_BOTH, EV_ROLE, EV_SECOND,
   EV_USAGE, EV_DONE}

NextMerge ==
  \/ \E e \in MergeEvents : Produce(e, MaxDeltas)
  \/ \E k \in CoarseSizes : Data(k)
  \/ End
  \/ Error

SpecMerge == InitStreaming /\ [][NextMerge]_vars

\* The parsed payload of an upstream data line, and of a frame written.
InPayload(line) == JSONparse(slice(line, Len(DATA_PREFIX)))
OutPayload(w) == JSONparse(SubSeq(w, Len(DATA_PREFIX) + 1, Len(w) - 2))

\* The upstream line was forwarded as a DataFrame.
IsForwardedDataFrame(line) == ~IsDoneLine(line) /\ InPayload(line).ok

RECURSIVE HasKeyAnywhere(_, _)
HasKeyAnywhere(v, k) ==
  \/ v.t = "obj" /\ KeyIndex(v.ks, k) # 0
  \/ \E i \in 1..Len(v.vs) : HasKeyAnywhere(v.vs[i], k)

\* The choice entries of a payload, and the delta of one of them.
ChoiceCount(v) == IF GetProp(v, K_choices).t = "arr" THEN Len(GetProp(v, K_choices).vs) ELSE 0
DeltaOf(v, j) == GetProp(GetProp(v, K_choices).vs[j], K_delta)

\* delta.content, or the empty string when the delta has none.
ContentOrEmpty(delta) ==
  IF Nullish(GetProp(delta, K_content)) THEN JStr(<<>>) ELSE GetProp(delta, K_content)

(***************************************************************************)
(* C6: with reasoning display disabled, every DataFrame forwarded has, in  *)
(* every choice entry, a delta.content equal to the original one (the      *)
(* empty string when there was none), and no reasoning_content anywhere.   *)
(***************************************************************************)
C6_ReasoningDisabled ==
  ~cfg.SHOW_REASONING =>
    \A i \in 1..Len(written) :
      (i <= Len(UpstreamDataLines) /\ IsForwardedDataFrame(UpstreamDataLines[i])) =>
        LET in == InPayload(UpstreamDataLines[i]).v
            out == OutPayload(written[i])
        IN /\ out.ok
           /\ ~HasKeyAnywhere(out.v, K_reasoning_content)
           /\ ChoiceCount(out.v) = ChoiceCount(in)
           /\ \A j \in 1..ChoiceCount(in) :
                DeltaOf(in, j).t = "obj" =>
                  GetProp(DeltaOf(out.v, j), K_content) = ContentOrEmpty(DeltaOf(in, j))

\* C6 for the first choice entry alone, which is what the handler rewrites.
C6_FirstChoiceOnly ==
  ~cfg.SHOW_REASONING =>
    \A i \in 1..Len(written) :
      (i <= Len(UpstreamDataLines) /\ IsForwardedDataFrame(UpstreamDataLines[i])) =>
        LET in == InPayload(UpstreamDataLines[i]).v
            out == OutPayload(written[i])
        IN /\ out.ok
           /\ FirstDelta(in).t = "obj" =>
                /\ ~HasKeyAnywhere(FirstDelta(out.v), K_reasoning_content)
                /\ GetProp(FirstDelta(out.v), K_content) = ContentOrEmpty(FirstDelta(in))

(***************************************************************************)
(* C7: with reasoning display enabled, when the stream so far is one or    *)
(* more reasoning-only deltas r1..rn followed by one content-only delta c, *)
(* the emitted delta.content values concatenate to                         *)
(* <think>\n r1..rn </think>\n\n c, the open marker being on the first     *)
(* reasoning frame only and the close marker on the content frame only.    *)
(***************************************************************************)
\* The parsed deltas of the upstream data lines, when all are DataFrames.
AllDataFrames == \A i \in 1..Len(UpstreamDataLines) : IsForwardedDataFrame(UpstreamDataLines[i])
InDelta(i) == FirstDelta(InPayload(UpstreamDataLines[i]).v)
OutContent(i) == GetProp(FirstDelta(OutPayload(written[i]).v), K_content)

IsText(v) == v.t = "str" /\ v.s # <<>>
IsReasoningOnly(delta) ==
  /\ delta.t = "obj"
  /\ IsText(GetProp(delta, K_reasoning_content))
  /\ GetProp(delta, K_content) = JUndefined
IsContentOnly(delta) ==
  /\ delta.t = "obj"
  /\ IsText(GetProp(delta, K_content))
  /\ GetProp(delta, K_reasoning_content) = JUndefined

\* The stream so far is r1..rn, c with n >= 1.
ReasoningThenContent ==
  /\ AllDelivered
  /\ AllDataFrames
  /\ Len(UpstreamDataLines) >= 2
  /\ \A i \in 1..(Len(UpstreamDataLines) - 1) : IsReasoningOnly(InDelta(i))
  /\ IsContentOnly(InDelta(Len(UpstreamDataLines)))

RECURSIVE ConcatTexts(_, _)
ConcatTexts(f, n) == IF n = 0 THEN <<>> ELSE ConcatTexts(f, n - 1) \o f[n]

C7_ReasoningThenContent ==
  (cfg.SHOW_REASONING /\ ReasoningThenContent) =>
    LET n == Len(UpstreamDataLines) - 1
        r == [i \in 1..n |-> GetProp(InDelta(i), K_reasoning_content).s]
        c == GetProp(InDelta(n + 1), K_content).s
        out == [i \in 1..(n + 1) |-> OutContent(i).s]
    IN /\ Len(written) = n + 1
       /\ ConcatTexts(out, n + 1) = THINK_OPEN \o ConcatTexts(r, n) \o THINK_CLOSE \o c
       /\ out[1] = THINK_OPEN \o r[1]
       /\ \A i \in 2..n : out[i] = r[i]
       /\ out[n + 1] = THINK_CLOSE \o c

\* reasoning A, reasoning B, content C has been forwarded as <think>\nAB</think>\n\nC
C7_Witness ==
  /\ cfg.SHOW_REASONING
  /\ ReasoningThenContent
  /\ Len(written) = 3
  /\ ConcatTexts([i \in 1..3 |-> OutContent(i).s], 3)
       = THINK_OPEN \o <<"A", "B">> \o THINK_CLOSE \o <<"C">>

(***************************************************************************)
(* Vocabulary of the request properties.                                   *)
(***************************************************************************)
\* The handler has run on the request.
Handled == pc # "idle"

\* The body lacks model, or model is not a string, or is the empty string.
BodyLacksModel == body.model.t # "str" \/ body.model.s = <<>>

\* The body lacks a messages array.
BodyLacksMessages == body.messages.t # "arr"

ErrorType(r) == GetProp(GetProp(r.json, K_error), K_type)
ErrorMessage(r) == GetProp(GetProp(r.json, K_error), K_message)

IsErrorEnvelope(j) ==
  /\ GetProp(j, K_error).t = "obj"
  /\ GetProp(GetProp(j, K_error), K_message).t = "str"
  /\ GetProp(GetProp(j, K_error), K_type).t = "str"
  /\ GetProp(GetProp(j, K_error), K_code).t = "num"

(***************************************************************************)
(* C3 as claimed: in every process configuration a request whose body      *)
(* lacks model or the messages array is answered 400 with an               *)
(* invalid_request_error envelope, and no upstream call is issued.         *)
(***************************************************************************)
C3_InvalidRequestAnyConfig ==
  (Handled /\ (BodyLacksModel \/ BodyLacksMessages)) =>
    /\ res.status = 400
    /\ ErrorType(res) = JStr(T_invalid_request_error)
    /\ upstreamCalls = 0

(***************************************************************************)
(* C3 as amended: a request whose body lacks model or the messages array   *)
(* never causes an upstream call; it is answered 400 with an               *)
(* invalid_request_error envelope when the process credential is present,  *)
(* and 500 with a server_error envelope when it is absent.                 *)
(***************************************************************************)
C3_InvalidRequest ==
  (Handled /\ (BodyLacksModel \/ BodyLacksMessages)) =>
    /\ upstreamCalls = 0
    /\ pc = "closed"
    /\ IsErrorEnvelope(res.json)
    /\ IF cfg.NIM_API_KEY
       THEN res.status = 400 /\ ErrorType(res) = JStr(T_invalid_request_error)
       ELSE res.status = 500 /\ ErrorType(res) = JStr(T_server_error)

\* With the credential present, a body whose model is the empty string
\* has been answered 400.
C3_Witness ==
  /\ Handled
  /\ cfg.NIM_API_KEY
  /\ body.model = JStr(<<>>)
  /\ ~BodyLacksMessages
  /\ res.status = 400
  /\ ErrorType(res) = JStr(T_invalid_request_error)
  /\ upstreamCalls = 0

(***************************************************************************)
(* C4: an upstream response with status >= 400 reaches the caller with     *)
(* the same status, and with the identical JSON body when the upstream     *)
(* body is a JSON object or array, or with an upstream_error envelope      *)
(* around the raw body text when the body is not JSON; this for requests   *)
(* dispatched as streaming and as non-streaming alike.                     *)
(***************************************************************************)
ForwardedAsClaimed ==
  /\ res.status = upstream.status
  /\ IF JSONparse(upstream.text).ok /\ JSONparse(upstream.text).v.t \in {"obj", "arr"}
     THEN res.json = JSONparse(upstream.text).v
     ELSE IF ~JSONparse(upstream.text).ok /\ upstream.text # <<>>
          THEN /\ ErrorType(res) = JStr(T_upstream_error)
               /\ ErrorMessage(res) = JStr(upstream.text)
          ELSE TRUE

C4_ErrorForwarding ==
  (pc = "closed" /\ upstream.status >= 400) => ForwardedAsClaimed

\* C4 for the requests dispatched as non-streaming.
C4_NonStreaming ==
  (pc = "closed" /\ upstream.status >= 400 /\ ~nimRequest.stream) => ForwardedAsClaimed

(***************************************************************************)
(* C5: the model sent upstream is the table entry when the requested model *)
(* is a key of the table, and for every other string the fallback id its   *)
(* lower-cased text selects: 405b, gpt-4 or opus the largest tier, else    *)
(* 70b, sonnet or gemini the mid tier, else the smallest tier.             *)
(***************************************************************************)
TableKeys == {M_gpt35, M_gpt4, M_gpt4turbo, M_gpt4o, M_opus, M_sonnet, M_gemini}

FallbackAsClaimed(text) ==
  LET lower == toLowerCase(text) IN
  IF \E p \in {S_405b, M_gpt4, S_opus} : includes(lower, p) THEN FALLBACK_LARGE
  ELSE IF \E p \in {S_70b, S_sonnet, S_gemini} : includes(lower, p) THEN FALLBACK_MID
  ELSE FALLBACK_SMALL

C5_ModelResolution ==
  nimRequest.sent =>
    nimRequest.model = IF body.model.s \in TableKeys
                       THEN JStr(MODEL_MAPPING[body.model.s])
                       ELSE JStr(FallbackAsClaimed(body.model.s))

\* C5 for the model strings that name no property of Object.prototype.
C5_OwnNamesOnly ==
  (nimRequest.sent /\ body.model.s \notin ObjectPrototypeProps) =>
    nimRequest.model = IF body.model.s \in TableKeys
                       THEN JStr(MODEL_MAPPING[body.model.s])
                       ELSE JStr(FallbackAsClaimed(body.model.s))

(***************************************************************************)
(* C9: at most one upstream call is issued for a request; exactly one once *)
(* the handler has run with the credential present on a valid body; none   *)
(* when the credential is absent, the caller then being answered 500 with  *)
(* an error envelope.                                                      *)
(***************************************************************************)
C9_UpstreamCallCount ==
  /\ upstreamCalls <= 1
  /\ (Handled /\ cfg.NIM_API_KEY /\ ~BodyLacksModel /\ ~BodyLacksMessages) =>
       upstreamCalls = 1
  /\ (Handled /\ ~cfg.NIM_API_KEY) =>
       /\ upstreamCalls = 0
       /\ res.status = 500
       /\ IsErrorEnvelope(res.json)

\* A valid request has been answered from one upstream call.
C9_Witness ==
  /\ pc = "closed"
  /\ cfg.NIM_API_KEY
  /\ ~BodyLacksModel
  /\ ~BodyLacksMessages
  /\ upstreamCalls = 1
  /\ res.status = 200

(***************************************************************************)
(* SpecConcurrent: two requests on the streaming path at the same time,    *)
(* their upstream chunk, end and error events interleaved in every order.  *)
(***************************************************************************)
\* Events the upstream sends to each of the concurrent requests.
MaxConcurrentEvents == 2

ConcurrentEvents == {EV_REASONING_A, EV_CONTENT}

singleVars == <<cfg, pc, body, nimRequest, upstreamCalls, upstream, res, pending,
                produced, delivered, buffer, reasoningStarted, written, ended,
                faulted>>

\* The upstream of request r sends one more event.
ProduceFor(r, e) ==
  /\ ~streams[r].ended
  /\ streams[r].produced < MaxConcurrentEvents
  /\ streams[r].pending = <<>>
  /\ streams' = [streams EXCEPT ![r].pending = e, ![r].produced = @ + 1]
  /\ UNCHANGED singleVars

\* The stream of request r emits "data" with the next k bytes: the handler
\* registered by r's call runs on the closure of that call and writes to
\* the res of that call (server.js 196-248).
DataFor(r, k) ==
  /\ ~streams[r].ended
  /\ k \in 1..Len(streams[r].pending)
  /\ LET c == ClosureOf(r)
         chunk == SubSeq(streams[r].pending, 1, k)
         st == OnData([buffer |-> streams[c].buffer,
                       reasoningStarted |-> streams[c].reasoningStarted,
                       written |-> streams[r].written], chunk, cfg.SHOW_REASONING)
     IN streams' = [streams EXCEPT
                      ![r].pending = SubSeq(@, k + 1, Len(@)),
                      ![r].chunks = Append(@, chunk),
                      ![r].written = st.written,
                      ![c].buffer = st.buffer,
                      ![c].reasoningStarted = st.reasoningStarted]
  /\ UNCHANGED singleVars

\* The stream of request r emits "end" (server.js 250).
EndFor(r) ==
  /\ ~streams[r].ended
  /\ streams[r].pending = <<>>
  /\ streams' = [streams EXCEPT ![r].ended = TRUE]
  /\ UNCHANGED singleVars

\* The stream of request r emits "error" (server.js 251-254).
ErrorFor(r) ==
  /\ ~streams[r].ended
  /\ streams' = [streams EXCEPT ![r].ended = TRUE, ![r].faulted = TRUE,
                                ![r].pending = <<>>]
  /\ UNCHANGED singleVars

\* Each request is handed its bytes in chunks of CoarseChunk bytes, so
\* every event reaches its handler in pieces.
ConcurrentSizes(r) == {Min(CoarseChunk, Len(streams[r].pending))}

NextConcurrent ==
  \/ \E r \in Requests, e \in ConcurrentEvents : ProduceFor(r, e)
  \/ \E r \in Requests : \E k \in ConcurrentSizes(r) : DataFor(r, k)
  \/ \E r \in Requests : EndFor(r)
  \/ \E r \in Requests : ErrorFor(r)

SpecConcurrent == InitStreaming /\ [][NextConcurrent]_vars

\* The closure state and the writes of a request that is given the first n
\* of these chunks and runs alone.
RECURSIVE RunAlone(_, _, _)
RunAlone(chunks, n, show) ==
  IF n = 0 THEN FreshStream
  ELSE OnData(RunAlone(chunks, n - 1, show), chunks[n], show)

AsIfAlone(r) ==
  LET alone == RunAlone(streams[r].chunks, Len(streams[r].chunks), cfg.SHOW_REASONING)
  IN /\ streams[r].written = alone.written
     /\ streams[r].buffer = alone.buffer
     /\ streams[r].reasoningStarted = alone.reasoningStarted

\* No event of request r happened in this step.
NoEventOf(r) ==
  /\ streams'[r].chunks = streams[r].chunks
  /\ streams'[r].ended = streams[r].ended
  /\ streams'[r].produced = streams[r].produced

(***************************************************************************)
(* C11: with two requests streaming at the same time, under every          *)
(* interleaving of their chunk, end and error events, what each caller has *)
(* been sent, and the request's buffer and reasoning-open flag, are those  *)
(* of the request running alone on its own chunks; and a step that is no   *)
(* event of a request leaves its buffer, flag and writes as they were.     *)
(***************************************************************************)
C11_PerRequestIsolation ==
  /\ [](\A r \in Requests : AsIfAlone(r))
  /\ [][\A r \in Requests :
          NoEventOf(r) => /\ streams'[r].buffer = streams[r].buffer
                          /\ streams'[r].reasoningStarted = streams[r].reasoningStarted
                          /\ streams'[r].written = streams[r].written]_vars

\* Both requests hold a partial line at the same moment, each after a frame
\* of its own was written, one of them with its reasoning section open.
C11_Witness ==
  /\ \A r \in Requests : streams[r].buffer # <<>> /\ Len(streams[r].written) = 1
  /\ streams[1].buffer # streams[2].buffer
  /\ streams[1].reasoningStarted
  /\ ~streams[2].reasoningStarted

(***************************************************************************)
(* Vocabulary of the numeric fields of the upstream request.               *)
(***************************************************************************)
IsFiniteInteger(v) == NumberIsFinite(v) /\ \A i \in 1..Len(v.s) : v.s[i] \in DIGITS

\* The caller sent no value, or one that is no finite number.
AbsentOrNonFinite(v) == v = JUndefined \/ ~NumberIsFinite(UnaryPlus(v))

(***************************************************************************)
(* C12: whatever representation of temperature and max_tokens the caller   *)
(* sent, the request sent upstream carries a finite temperature and a      *)
(* finite integer max_tokens, and an absent or non-finite input yields the *)
(* default, 0.6 and 2048.                                                  *)
(***************************************************************************)
C12_NumericFields ==
  nimRequest.sent =>
    /\ NumberIsFinite(nimRequest.temperature)
    /\ IsFiniteInteger(nimRequest.max_tokens)
    /\ AbsentOrNonFinite(body.temperature) => nimRequest.temperature = DEFAULT_TEMPERATURE
    /\ AbsentOrNonFinite(body.max_tokens) => nimRequest.max_tokens = DEFAULT_MAX_TOKENS

\* C12 for temperature alone, which is coerced with the unary plus only.
C12_TemperatureFinite ==
  nimRequest.sent =>
    /\ NumberIsFinite(nimRequest.temperature)
    /\ AbsentOrNonFinite(body.temperature) => nimRequest.temperature = DEFAULT_TEMPERATURE

(***************************************************************************)
(* SpecLive: Spec with the progress the code's scheduling gives.  The      *)
(* awaited upstream call always settles: the upstream answers, or the      *)
(* timeout of server.js 165 rejects the call.  The bytes in flight are     *)
(* always eventually handed to the data handler.  Nothing makes the        *)
(* upstream send a further event, end its stream or fail: an upstream that *)
(* has answered may stay silent for ever.                                  *)
(***************************************************************************)
Settle ==
  \/ \E status \in UpstreamStatuses, text \in UpstreamBodies, throws \in BOOLEAN :
       UpstreamErrorStatus(status, text, throws)
  \/ \E status \in UpstreamStatuses : UpstreamStreamOpens(status)
  \/ \E status \in UpstreamStatuses, text \in UpstreamBodies :
       UpstreamBuffered(status, text)
  \/ AxiosRejects

\* Nothing is in flight to the data handler of an open stream.
HandedOver == pc = "streaming" => pending = <<>>

SpecLive == Init /\ [][Next]_vars /\ WF_vars(Settle) /\ []<>HandedOver

\* The steps of the lifecycle: validating ends in a dispatch or in an
\* answer, a dispatched call in a streaming forward or in an answer, a
\* streaming forward in the end of the response.
LifecycleSteps ==
  {<<"idle", "awaiting">>, <<"idle", "closed">>, <<"awaiting", "streaming">>,
   <<"awaiting", "closed">>, <<"streaming", "closed">>}

(***************************************************************************)
(* C13: a request moves through the lifecycle in order, and every request  *)
(* the handler has taken up eventually reaches Closed, the response to its *)
(* caller ended.                                                           *)
(***************************************************************************)
C13_EventuallyClosed ==
  /\ [][pc' # pc => <<pc, pc'>> \in LifecycleSteps]_vars
  /\ Handled ~> (pc = "closed")

\* C13 without the streaming forward: the order of the lifecycle, the
\* dispatched call always settling, and every request that is not
\* forwarded as a stream reaching Closed.
C13_CallSettles ==
  /\ [][pc' # pc => <<pc, pc'>> \in LifecycleSteps]_vars
  /\ (pc = "awaiting") ~> (pc \in {"streaming", "closed"})
  /\ (Handled /\ ~nimRequest.stream) ~> (pc = "closed")

(***************************************************************************)
(* Vocabulary of the non-streaming translation.                            *)
(***************************************************************************)
\* The caller has been answered with the translation of a complete
\* upstream body.
Translated ==
  /\ pc = "closed"
  /\ nimRequest.sent
  /\ ~nimRequest.stream
  /\ upstream.status \in 200..399
  /\ res.status = 200

(***************************************************************************)
(* C14: the model field of the envelope the non-streaming path answers     *)
(* with is the model string of the caller's request, whatever upstream id  *)
(* it resolved to and whatever model name the upstream body reports.       *)
(***************************************************************************)
C14_ModelEchoed ==
  Translated => /\ body.model.t = "str"
                /\ GetProp(res.json, K_model) = body.model

\* gpt-4, resolved to a table entry and answered by an upstream body that
\* reports another model name, came back as gpt-4.
C14_Witness ==
  /\ Translated
  /\ body.model = JStr(M_gpt4)
  /\ nimRequest.model = JStr(MODEL_MAPPING[M_gpt4])
  /\ upstream.text = UP_COMPLETION
  /\ GetProp(JSONparse(upstream.text).v, K_model) # body.model
  /\ GetProp(res.json, K_model) = JStr(M_gpt4)

(***************************************************************************)
(* Vocabulary of the frames of a stream.  Every upstream data line is      *)
(* answered by one write, so write i answers data line i.                  *)
(***************************************************************************)
PayloadOf(line) == slice(line, Len(DATA_PREFIX))

\* A write that is a DataFrame: a complete frame whose payload is JSON.
IsJsonFrame(w) == IsCompleteFrame(w) /\ w # DONE_FRAME /\ OutPayload(w).ok

(***************************************************************************)
(* C15: the write that answers a data line is the termination frame if and *)
(* only if the payload of the line is the termination token [DONE]; a data *)
(* line whose payload parses as JSON, the characters [DONE] inside its     *)
(* text or not, is answered by a DataFrame with a JSON payload.            *)
(***************************************************************************)
C15_TerminationOnlyForToken ==
  \A i \in 1..Len(written) :
    i <= Len(UpstreamDataLines) =>
      LET payload == PayloadOf(UpstreamDataLines[i]) IN
      /\ (written[i] = DONE_FRAME) <=> (payload = DONE_TOKEN)
      /\ JSONparse(payload).ok => IsJsonFrame(written[i])

\* C15 for the data lines that hold the characters [DONE] only as their
\* whole payload.
C15_TokenAsPayloadOnly ==
  \A i \in 1..Len(written) :
    i <= Len(UpstreamDataLines) =>
      LET payload == PayloadOf(UpstreamDataLines[i]) IN
      (includes(payload, DONE_TOKEN) => payload = DONE_TOKEN) =>
        /\ (written[i] = DONE_FRAME) <=> (payload = DONE_TOKEN)
        /\ JSONparse(payload).ok => IsJsonFrame(written[i])

\* A text without its characters outside ASCII, which the chunking of the
\* bytes may decode differently.
Ascii(s) == SelectSeq(s, LAMBDA c : c \notin {E_ACUTE, REPLACEMENT, LEAD_BYTE, CONT_BYTE})

\* The write answers this data line: the termination frame for a line the
\* handler takes for the terminator, else a write that repeats the line
\* (the events of SpecStream are compact JSON the rewrite leaves as it is).
OriginatesFrom(w, line) ==
  IF IsDoneLine(line) THEN w = DONE_FRAME
  ELSE /\ startsWith(Ascii(w), Ascii(line))
       /\ Len(Ascii(w)) \in {Len(Ascii(line)) + 1, Len(Ascii(line)) + 2}

(***************************************************************************)
(* C16: at every point of every chunking, the writes so far are one per    *)
(* complete upstream line that begins with data: , none for any other      *)
(* line, and they are in the order of their lines in the upstream bytes.   *)
(***************************************************************************)
C16_OneFramePerDataLineInOrder ==
  /\ Len(written) = Len(UpstreamDataLines)
  /\ \A i \in 1..Len(written) : OriginatesFrom(written[i], UpstreamDataLines[i])

\* A comment line, the blank lines and one data line have been handed over,
\* and the data line alone was answered, by one write that repeats it.
C16_Witness ==
  /\ Len(written) = 1
  /\ Len(UpstreamDataLines) = 1
  /\ Len(CompleteLines(toStringUtf8(delivered))) = 4
  /\ ~IsDataLine(CompleteLines(toStringUtf8(delivered))[1])
  /\ CompleteLines(toStringUtf8(delivered))[1] # <<>>
  /\ written[1] = UpstreamDataLines[1] \o <<NL, NL>>
  /\ pending = <<>>

\* The upstream sends its termination-token line last: no data line before
\* the last one is that line.
TokenLineOnlyLast ==
  \A i \in 1..(Len(UpstreamDataLines) - 1) : UpstreamDataLines[i] # DONE_LINE

\* No upstream data line holds the characters [DONE] inside a longer payload.
TokenOnlyAsPayload ==
  \A i \in 1..Len(UpstreamDataLines) :
    includes(UpstreamDataLines[i], DONE_TOKEN) => UpstreamDataLines[i] = DONE_LINE

(***************************************************************************)
(* C17: for an upstream that sends its termination-token line last, no     *)
(* write follows the termination frame, and a stream ended after the       *)
(* upstream's normal end has the termination frame as its last write.      *)
(***************************************************************************)
C17_TerminationFrameLast ==
  TokenLineOnlyLast =>
    /\ \A i \in 1..(Len(written) - 1) : written[i] # DONE_FRAME
    /\ (ended /\ ~faulted /\ EndsWithOneDoneLine) =>
         (written # <<>> /\ written[Len(written)] = DONE_FRAME)

\* C17 for the streams none of whose payloads holds the characters [DONE]
\* inside a longer text.
C17_TokenAsPayloadOnly ==
  (TokenLineOnlyLast /\ TokenOnlyAsPayload) =>
    /\ \A i \in 1..(Len(written) - 1) : written[i] # DONE_FRAME
    /\ (ended /\ ~faulted /\ EndsWithOneDoneLine) =>
         (written # <<>> /\ written[Len(written)] = DONE_FRAME)

(***************************************************************************)
(* Vocabulary for the comparison of the two paths.                         *)
(***************************************************************************)
\* The stream was n reasoning-only deltas followed by content-only deltas,
\* all handed over, and has ended.
ReasoningDeltasThenContentDeltas(n) ==
  /\ AllDelivered
  /\ ended
  /\ AllDataFrames
  /\ Len(written) = Len(UpstreamDataLines)
  /\ Len(UpstreamDataLines) >= 1
  /\ n \in 0..Len(UpstreamDataLines)
  /\ \A i \in 1..n : IsReasoningOnly(InDelta(i))
  /\ \A i \in (n + 1)..Len(UpstreamDataLines) : IsContentOnly(InDelta(i))

\* The texts the stream delivered and the delta.content values sent.
StreamedReasoning(n) ==
  ConcatTexts([i \in 1..n |-> GetProp(InDelta(i), K_reasoning_content).s], n)
StreamedContent(n) ==
  LET len == Len(UpstreamDataLines) IN
  ConcatTexts([i \in 1..(len - n) |-> GetProp(InDelta(n + i), K_content).s], len - n)
EmittedContent ==
  ConcatTexts([i \in 1..Len(written) |-> OutContent(i).s], Len(written))

\* A complete upstream choice with this reasoning and this content.
CompleteChoice(r, c) ==
  JObj(<<K_message>>,
       <<JObj(<<K_reasoning_content, K_content>>, <<JStr(r), JStr(c)>>)>>)

(***************************************************************************)
(* C18: for a stream that delivers a reasoning text R as reasoning deltas  *)
(* and then a content text C as content deltas (C possibly empty), the     *)
(* delta.content values sent concatenate to the message.content the        *)
(* non-streaming translation gives a complete response with reasoning R    *)
(* and content C; with reasoning display disabled both are C.              *)
(***************************************************************************)
C18_PathsEquivalent ==
  \A n \in 0..MaxDeltas :
    ReasoningDeltasThenContentDeltas(n) =>
      LET message == FullContent(CompleteChoice(StreamedReasoning(n), StreamedContent(n)),
                                 cfg.SHOW_REASONING)
      IN /\ EmittedContent = message.s
         /\ ~cfg.SHOW_REASONING => EmittedContent = StreamedContent(n)

\* C18 with reasoning display disabled, or with no reasoning delivered.
C18_WithoutReasoningShown ==
  \A n \in 0..MaxDeltas :
    (ReasoningDeltasThenContentDeltas(n) /\ (~cfg.SHOW_REASONING \/ n = 0)) =>
      LET message == FullContent(CompleteChoice(StreamedReasoning(n), StreamedContent(n)),
                                 cfg.SHOW_REASONING)
      IN /\ EmittedContent = message.s
         /\ EmittedContent = StreamedContent(n)

\* The reasoning-section markers in a text, in their order.
Markers(text) ==
  SelectSeq([i \in 1..Len(text) |->
               IF HasAt(text, i, THINK_OPEN) THEN "open"
               ELSE IF HasAt(text, i, THINK_CLOSE) THEN "close"
               ELSE "none"],
            LAMBDA m : m # "none")

(***************************************************************************)
(* C19: at every point of a stream the markers sent so far alternate,      *)
(* open first, so that no open marker is sent while a section is open and  *)
(* no close marker while none is; reasoningStarted is true exactly when    *)
(* one more open marker than close markers has been sent; and it is false  *)
(* when the stream starts.                                                 *)
(***************************************************************************)
C19_MarkersBalanced ==
  LET m == Markers(EmittedContent) IN
  /\ \A i \in 1..Len(m) : m[i] = IF i % 2 = 1 THEN "open" ELSE "close"
  /\ reasoningStarted <=> (Len(m) % 2 = 1)
  /\ delivered = <<>> => ~reasoningStarted

\* A section was opened and closed, and a second one is open.
C19_Witness ==
  /\ cfg.SHOW_REASONING
  /\ Markers(EmittedContent) = <<"open", "close", "open">>
  /\ reasoningStarted

(***************************************************************************)
(* Streams of frames that carry more than the two delta fields: whole      *)
(* events per chunk, up to MaxDeltas of them.                              *)
(***************************************************************************)
\* a frame as the upstream sends it, with fields around the choices and
\* around and inside the delta
K_tool_calls == <<"t", "o", "o", "l", "_", "c", "a", "l", "l", "s">>
EV_FULL ==
  DataEvent(
    JObj(<<K_id, K_model, K_choices>>,
         <<JStr(<<"x">>), JStr(<<"n", "i", "m">>),
           JArr(<<JObj(<<K_index, K_delta, K_finish_reason>>,
                       <<JNum(<<"0">>),
                         JObj(<<K_role, K_reasoning_content, K_tool_calls>>,
                              <<JStr(T_assistant), JStr(<<"A">>), JArr(<<>>)>>),
                         JNull>>)>>)>>))

RewriteEvents == {EV_FULL, EV_SECOND, EV_USAGE, EV_ROLE, EV_BOTH, EV_DONE}

NextRewrite ==
  \/ \E e \in RewriteEvents : Produce(e, MaxDeltas)
  \/ \E k \in CoarseSizes : Data(k)
  \/ End
  \/ Error

SpecRewrite == InitStreaming /\ [][NextRewrite]_vars

(***************************************************************************)
(* Vocabulary of the frame rewrite.                                        *)
(***************************************************************************)
\* The payload has the shape { choices: [ { delta: { ... } } ] }.
HasDeltaShape(v) == FirstDelta(v).t = "obj"

\* A payload of that shape without the two fields the rewrite is about.
WithoutDeltaTexts(v) ==
  LET choices == GetProp(v, K_choices)
      choice == GetIndex0(choices)
      delta == DeleteProp(DeleteProp(GetProp(choice, K_delta), K_content),
                          K_reasoning_content)
  IN SetProp(v, K_choices, JArr([choices.vs EXCEPT ![1] = SetProp(choice, K_delta, delta)]))

\* The write w answers the data line, when its payload parses, with a
\* DataFrame that differs from that payload in the two delta fields at most.
RewrittenInPlace(line, w) ==
  LET in == InPayload(line)
      out == OutPayload(w)
  IN in.ok =>
       /\ out.ok
       /\ IF HasDeltaShape(in.v)
          THEN /\ HasDeltaShape(out.v)
               /\ WithoutDeltaTexts(out.v) = WithoutDeltaTexts(in.v)
               /\ GetProp(FirstDelta(out.v), K_content) # JUndefined
          ELSE out.v = in.v

(***************************************************************************)
(* C20: a DataFrame whose payload has not the shape choices[0].delta is    *)
(* sent with the payload it came with; one that has the shape is sent with *)
(* every field but choices[0].delta.content and                            *)
(* choices[0].delta.reasoning_content as it came (ids, model, other choice *)
(* entries, finish_reason, role, tool fields), and with delta.content      *)
(* present.                                                                *)
(***************************************************************************)
C20_OnlyDeltaTextsChange ==
  LET lines == UpstreamDataLines
  IN \A i \in 1..Len(written) :
       (i <= Len(lines) /\ ~IsDoneLine(lines[i])) =>
         RewrittenInPlace(lines[i], written[i])

\* A frame with fields around the choices and inside the delta, a frame
\* with a second choice entry and a frame with no choices were all sent.
C20_Witness ==
  /\ Len(written) = 3
  /\ Len(UpstreamDataLines) = 3
  /\ \E i, j, k \in 1..3 :
       /\ Event(UpstreamDataLines[i]) = EV_FULL
       /\ Event(UpstreamDataLines[j]) = EV_SECOND
       /\ Event(UpstreamDataLines[k]) = EV_USAGE
       /\ GetProp(FirstDelta(OutPayload(written[i]).v), K_tool_calls) = JArr(<<>>)
       /\ ChoiceCount(OutPayload(written[j]).v) = 2
       /\ written[k] = EV_USAGE

=============================================================================
